---- MODULE Spec2Model ----
(***************************************************************************)
(* Hybrid retrieval engine of the Knowella RAG API: the retrieval service  *)
(* (cache, hybrid search, reciprocal rank fusion, query expansion), the    *)
(* BM25 service (tokenizer, index, search) and the vector-store calls the  *)
(* retrieval path makes.                                                   *)
(*                                                                         *)
(* Texts are TLA+ strings handled character by character (SubSeq, Len and  *)
(* \o work on strings in TLC).  Fused scores are exact rationals [n, d];   *)
(* BM25 scores are fixed-point thousandths.                                *)
(***************************************************************************)
EXTENDS Integers, Sequences, FiniteSets, TLC

(***************************************************************************)
(* Strings                                                                 *)
(***************************************************************************)
UpperChars == "ABCDEFGHIJKLMNOPQRSTUVWXYZ"
LowerChars == "abcdefghijklmnopqrstuvwxyz"
DigitChars == "0123456789"

Char(s, i) == SubSeq(s, i, i)

InChars(c, chars) == \E i \in 1..Len(chars) : Char(chars, i) = c

\* One character of String.prototype.toLowerCase.
LowerChar(c) ==
  IF InChars(c, UpperChars)
    THEN Char(LowerChars, CHOOSE i \in 1..Len(UpperChars) : Char(UpperChars, i) = c)
    ELSE c

RECURSIVE toLowerCase(_)
toLowerCase(s) ==
  IF Len(s) = 0 THEN ""
  ELSE LowerChar(Char(s, 1)) \o toLowerCase(SubSeq(s, 2, Len(s)))

\* \s of a JavaScript regular expression, over the characters used here.
IsSpace(c) == c \in {" ", "\t", "\n"}
IsDigit(c) == InChars(c, DigitChars)
\* \w : [A-Za-z0-9_]
IsWordChar(c) == InChars(c, UpperChars) \/ InChars(c, LowerChars) \/ IsDigit(c) \/ c = "_"

RECURSIVE trimStart(_)
trimStart(s) ==
  IF Len(s) > 0 /\ IsSpace(Char(s, 1)) THEN trimStart(SubSeq(s, 2, Len(s))) ELSE s

RECURSIVE trimEnd(_)
trimEnd(s) ==
  IF Len(s) > 0 /\ IsSpace(Char(s, Len(s))) THEN trimEnd(SubSeq(s, 1, Len(s) - 1)) ELSE s

\* String.prototype.trim
trim(s) == trimEnd(trimStart(s))

\* String.prototype.includes: pat occurs in s.
Includes(s, pat) ==
  \E i \in 1..(Len(s) - Len(pat) + 1) : SubSeq(s, i, i + Len(pat) - 1) = pat

\* s.split(/\s+/): the pieces between maximal runs of whitespace; a leading
\* or trailing run leaves an empty first or last piece, as in JavaScript.
RECURSIVE splitFrom(_, _, _)
splitFrom(s, i, cur) ==
  IF i > Len(s) THEN <<cur>>
  ELSE IF IsSpace(Char(s, i))
    THEN IF i > 1 /\ IsSpace(Char(s, i - 1))
           THEN splitFrom(s, i + 1, cur)
           ELSE <<cur>> \o splitFrom(s, i + 1, "")
    ELSE splitFrom(s, i + 1, cur \o Char(s, i))

splitWhitespace(s) == splitFrom(s, 1, "")

RECURSIVE join(_, _)
join(words, sep) ==
  IF Len(words) = 0 THEN ""
  ELSE IF Len(words) = 1 THEN words[1]
  ELSE words[1] \o sep \o join(Tail(words), sep)

Range(seq) == {seq[i] : i \in 1..Len(seq)}

\* [...new Set(seq)]: first occurrences, in order.
RECURSIVE uniqueFrom(_, _)
uniqueFrom(seq, seen) ==
  IF Len(seq) = 0 THEN <<>>
  ELSE IF Head(seq) \in seen THEN uniqueFrom(Tail(seq), seen)
  ELSE <<Head(seq)>> \o uniqueFrom(Tail(seq), seen \cup {Head(seq)})

unique(seq) == uniqueFrom(seq, {})

(***************************************************************************)
(* BM25Service.tokenize and isStopWord                                     *)
(***************************************************************************)
stopWords ==
  {"the", "and", "for", "are", "but", "not", "you", "all", "can", "her",
   "was", "one", "our", "out", "day", "get", "has", "him", "his", "how",
   "its", "may", "new", "now", "old", "see", "than", "that", "this", "with"}

isStopWord(word) == word \in stopWords

\* .replace(/(\d+)%/g, '$1percent'): a % that follows a digit becomes
\* "percent".  (The next replace, /(\d+)x/ by '$1x', changes nothing.)
RECURSIVE replacePercent(_, _)
replacePercent(s, i) ==
  IF i > Len(s) THEN ""
  ELSE (IF Char(s, i) = "%" /\ i > 1 /\ IsDigit(Char(s, i - 1))
          THEN "percent" ELSE Char(s, i))
       \o replacePercent(s, i + 1)

\* .replace(/[^\w\s.-]/g, ' ')
RECURSIVE replaceNonWord(_)
replaceNonWord(s) ==
  IF Len(s) = 0 THEN ""
  ELSE (LET c == Char(s, 1) IN
          IF IsWordChar(c) \/ IsSpace(c) \/ c = "." \/ c = "-" THEN c ELSE " ")
       \o replaceNonWord(SubSeq(s, 2, Len(s)))

HasDigit(token) == \E i \in 1..Len(token) : IsDigit(Char(token, i))

KeepToken(token) ==
  /\ Len(token) > 0
  /\ ~isStopWord(token)
  /\ (HasDigit(token) \/ Len(token) > 2)

tokenize(text) ==
  IF text = "" THEN <<>>
  ELSE SelectSeq(
         splitWhitespace(replaceNonWord(replacePercent(toLowerCase(text), 1))),
         KeepToken)

(***************************************************************************)
(* RetrievalService.expandQuery and getCacheKey                            *)
(***************************************************************************)
\* Each rule: the alternatives of its regular expression (all plain
\* substrings, tested case-insensitively; "results?" matches exactly when
\* "result" occurs) and the keywords it pushes.
expansionRules ==
  << [patterns |-> {"result", "benefit", "outcome", "improvement", "impact",
                    "achieve", "see", "experience"},
      keywords |-> <<"percentage", "metrics", "statistics", "improvements",
                     "increase", "decrease", "reduction", "efficiency",
                     "productivity", "engagement", "data-entry", "accidents",
                     "insights", "actionable", "proven", "ROI">>],
     [patterns |-> {"how much", "how many", "percentage", "percent", "number",
                    "stat", "metric"},
      keywords |-> <<"70percent", "62percent", "45percent", "1.8x",
                     "increase", "reduction", "drop", "less", "more">>],
     [patterns |-> {"fast", "quick", "efficient", "speed", "time", "performance"},
      keywords |-> <<"data-entry", "productivity", "workflow", "automation",
                     "time-savings", "faster", "reduction">>],
     [patterns |-> {"safety", "accident", "injury", "incident", "compliance",
                    "hazard"},
      keywords |-> <<"workplace", "accidents", "injuries", "compliance",
                     "risk", "ergonomics", "OSHA", "safety">>],
     [patterns |-> {"ai", "artificial intelligence", "technology", "automation",
                    "digital"},
      keywords |-> <<"AI-powered", "automation", "digitize", "no-code",
                     "machine-learning", "intelligent", "smart">>] >>

RECURSIVE expansionsFrom(_, _)
expansionsFrom(lowerQuestion, r) ==
  IF r > Len(expansionRules) THEN <<>>
  ELSE (IF \E p \in expansionRules[r].patterns : Includes(lowerQuestion, p)
          THEN expansionRules[r].keywords ELSE <<>>)
       \o expansionsFrom(lowerQuestion, r + 1)

expandQuery(question) ==
  LET lowerQuestion == toLowerCase(question)
      expansions == expansionsFrom(lowerQuestion, 1)
      questionWords == Range(splitWhitespace(lowerQuestion))
      NotInQuestion(word) == toLowerCase(word) \notin questionWords
      uniqueExpansions == SelectSeq(unique(expansions), NotInQuestion)
  IN IF Len(uniqueExpansions) = 0 THEN question
     ELSE question \o " " \o join(uniqueExpansions, " ")

\* a key that takes the question as it was typed
getCacheKeyVerbatim(question, topK) == <<question, topK>>

\* `${question.toLowerCase().trim()}_k${topK}` : the key as the pair of its
\* two variable parts.
getCacheKey(question, topK) == <<trim(toLowerCase(question)), topK>>

\* The questions retrieve is called with.
Questions == {"Safety risk", "xyz123", "the"}

\* Spellings of one question: the second differs from the first in letter
\* case and outer whitespace only, the third has two spaces between its
\* words.
KeyQuestions == {"Safety risk", " SAFETY Risk  ", "Safety  risk"}

\* Questions for expandQuery: one rule with two of its keywords in the
\* question; no rule; a question mark after the word that is also a
\* keyword; every keyword of the one matching rule in the question.
ExpandQuestions ==
  {"Safety risk", "xyz123", "Is it about safety?",
   "osha safety compliance workplace accidents injuries risk ergonomics"}

AllQuestions == Questions \cup KeyQuestions \cup ExpandQuestions

\* The three conversions above on the questions, evaluated once.
cacheKeyOf == [q \in AllQuestions |-> getCacheKey(q, 0)[1]]
expandedQueryOf == [q \in AllQuestions |-> expandQuery(q)]
queryTokensOf == [query \in {expandedQueryOf[q] : q \in AllQuestions} |-> tokenize(query)]

(***************************************************************************)
(* The corpus: the chunks ingestion can put into the vector store.  A      *)
(* chunk's id stands for generateId(url, chunk_index); its payload is      *)
(* fixed.  similarity is the cosine similarity the vector database         *)
(* computes between a question's embedding and a chunk's, in hundredths.   *)
(***************************************************************************)
NumChunks == 5

corpus ==
  << [url |-> "A", section_heading |-> "Safety",
      text |-> "AI ergonomics video posture risk scoring"],
     [url |-> "A", section_heading |-> "",
      text |-> "Supply chain automation workflow"],
     [url |-> "B", section_heading |-> "",
      text |-> "Workplace safety compliance: 70% fewer accidents"],
     [url |-> "A", section_heading |-> "Ergonomics",
      text |-> "AI ergonomics RULA REBA assessment"],
     [url |-> "A", section_heading |-> "",
      text |-> "Digitize inspections with no-code checklists"],
     [url |-> "A", section_heading |-> "Analytics",
      text |-> "Customer engagement statistics and insights"] >>

ChunkIds == 1..NumChunks
Urls == {corpus[id].url : id \in ChunkIds}

similarity ==
  [q \in AllQuestions |->
     CASE q = "Safety risk" -> <<70, 60, 50, 80, 65, 55>>
       [] q = " SAFETY Risk  " -> <<80, 60, 50, 70, 65, 55>>
       [] q = "Safety  risk" -> <<70, 62, 50, 80, 65, 55>>
       [] q = "xyz123"      -> <<10, 20, 15, 5, 12, 8>>
       [] OTHER             -> <<6, 4, 8, 2, 7, 3>>]

(***************************************************************************)
(* Array.prototype.sort with a comparator (b.score - a.score): stable,     *)
(* descending; GreaterScore(a, b) says a's score is strictly the greater.  *)
(***************************************************************************)
sortDesc(seq, GreaterScore(_, _)) ==
  LET n == Len(seq)
      \* where seq[i] lands: after every element with a greater score and
      \* after the earlier elements with an equal one
      pos(i) == 1 + Cardinality({j \in 1..n :
                      \/ GreaterScore(seq[j], seq[i])
                      \/ (j < i /\ ~GreaterScore(seq[i], seq[j]))})
  IN [p \in 1..n |-> seq[CHOOSE i \in 1..n : pos(i) = p]]

\* Array.prototype.slice(0, n)
slice(seq, n) == SubSeq(seq, 1, IF n < Len(seq) THEN n ELSE Len(seq))

IntGreater(a, b) == a.score > b.score

\* The ids of a set in increasing order (the order a scroll lists points).
RECURSIVE ascending(_)
ascending(S) ==
  IF S = {} THEN <<>>
  ELSE LET m == CHOOSE m \in S : \A o \in S : m <= o
       IN <<m>> \o ascending(S \ {m})

(***************************************************************************)
(* VectorStoreService: search, getChunksByIds, getAllChunks over a store   *)
(* holding the chunk ids in `points`.                                      *)
(***************************************************************************)
\* client.search: the `limit` nearest points by cosine similarity.
vectorSearch(points, question, limit) ==
  slice(sortDesc([i \in 1..Cardinality(points) |->
                    [id |-> ascending(points)[i],
                     score |-> similarity[question][ascending(points)[i]]]],
                 IntGreater),
        limit)

\* client.retrieve: the points among ids that exist.
getChunksByIds(points, ids) == {id \in Range(ids) : id \in points}

getAllChunks(points) == ascending(points)

(***************************************************************************)
(* class BM25                                                              *)
(***************************************************************************)
k1Twice == 3      \* k1 = 1.5
bQuarters == 3    \* b  = 0.75

\* 1000 * ln(n) for n = 1..16, rounded.
lnMilli == <<0, 693, 1099, 1386, 1609, 1792, 1946, 2079, 2197, 2303, 2398, 2485,
             2565, 2639, 2708, 2773>>

termFreq(doc, term) == Cardinality({i \in 1..Len(doc) : doc[i] = term})

RECURSIVE sumLengths(_)
sumLengths(documents) ==
  IF Len(documents) = 0 THEN 0 ELSE Len(Head(documents)) + sumLengths(Tail(documents))

\* idf = ln((N - df + 0.5) / (df + 0.5) + 1) = ln((2N + 2) / (2df + 1)), in
\* thousandths; 0 for a term no document holds (idf.get(term) || 0).
idfMilli(documents, term) ==
  LET N == Len(documents)
      df == Cardinality({i \in 1..N : termFreq(documents[i], term) > 0})
  IN IF df = 0 THEN 0 ELSE lnMilli[2 * N + 2] - lnMilli[2 * df + 1]

\* idf * tf * (k1 + 1) / (tf + k1 * (1 - b + b * docLength / avgDocLength)),
\* numerator and denominator both multiplied by 8 * totalLength.
RECURSIVE bm25DocScore(_, _, _)
bm25DocScore(documents, docIdx, queryTerms) ==
  IF Len(queryTerms) = 0 THEN 0
  ELSE LET doc == documents[docIdx]
           tf == termFreq(doc, Head(queryTerms))
           total == sumLengths(documents)
           numerator == idfMilli(documents, Head(queryTerms)) * tf * (k1Twice + 2) * 4 * total
           denominator == 8 * tf * total
                          + k1Twice * ((4 - bQuarters) * total
                                       + bQuarters * Len(doc) * Len(documents))
       IN (IF tf = 0 THEN 0 ELSE numerator \div denominator)
          + bm25DocScore(documents, docIdx, Tail(queryTerms))

\* BM25.search: one score per document.
bm25Scores(documents, queryTerms) ==
  [docIdx \in 1..Len(documents) |-> bm25DocScore(documents, docIdx, queryTerms)]

(***************************************************************************)
(* BM25Service: the index is [built, bm25, documents, documentIds]; bm25   *)
(* is the document list the BM25 object computed its statistics from.     *)
(***************************************************************************)
emptyIndex ==
  [built |-> FALSE, bm25 |-> <<>>, documents |-> <<>>, documentIds |-> <<>>]

textToIndex(id) ==
  IF corpus[id].section_heading # ""
    THEN corpus[id].section_heading \o " " \o corpus[id].text
    ELSE corpus[id].text

corpusTokens == [id \in ChunkIds |-> tokenize(textToIndex(id))]

\* a build whose BM25 object is constructed before the last document is
\* pushed
builtIndexEarlyStats(chunks) ==
  [built |-> TRUE,
   bm25 |-> [i \in 1..(Len(chunks) - 1) |-> corpusTokens[chunks[i]]],
   documents |-> [i \in 1..Len(chunks) |-> corpusTokens[chunks[i]]],
   documentIds |-> chunks]

\* buildIndex(chunks): chunks as the sequence of their ids.
builtIndex(chunks) ==
  [built |-> TRUE,
   bm25 |-> [i \in 1..Len(chunks) |-> corpusTokens[chunks[i]]],
   documents |-> [i \in 1..Len(chunks) |-> corpusTokens[chunks[i]]],
   documentIds |-> chunks]

\* search without the early return on a query that leaves no token
bm25SearchUnguarded(index, query, topK) ==
  LET queryTokens == IF query \in DOMAIN queryTokensOf
                       THEN queryTokensOf[query] ELSE tokenize(query)
      scores == bm25Scores(index.bm25, queryTokens)
      results == [i \in 1..Len(scores) |->
                    [id |-> index.documentIds[i], score |-> scores[i]]]
  IN slice(sortDesc(results, IntGreater), topK)

\* BM25Service.search(query, topK)
bm25Search(index, query, topK) ==
  IF ~index.built \/ Len(index.documents) = 0 THEN <<>>
  ELSE LET queryTokens == IF query \in DOMAIN queryTokensOf
                             THEN queryTokensOf[query] ELSE tokenize(query) IN
    IF Len(queryTokens) = 0 THEN <<>>
    ELSE LET scores == bm25Scores(index.bm25, queryTokens)
             results == [i \in 1..Len(scores) |->
                           [id |-> index.documentIds[i], score |-> scores[i]]]
         IN slice(sortDesc(results, IntGreater), topK)

(***************************************************************************)
(* Rationals [n, d] with d > 0, in lowest terms: the normalized scores and *)
(* the similarity thresholds.                                              *)
(***************************************************************************)
RECURSIVE gcd(_, _)
gcd(a, b) == IF b = 0 THEN a ELSE gcd(b, a % b)

\* n / d for n, d >= 0.  A division by zero gives d = 0: [0, 0] is NaN and
\* [1, 0] is Infinity.
ratio(n, d) ==
  LET g == gcd(n, d)
  IN IF g = 0 THEN [n |-> 0, d |-> 0] ELSE [n |-> n \div g, d |-> d \div g]

one == ratio(1, 1)
zero == ratio(0, 1)

isNumber(a) == a.d > 0

\* a >= b; false when either is NaN
geq(a, b) == isNumber(a) /\ isNumber(b) /\ a.n * b.d >= b.n * a.d

Thresholds == {zero, ratio(3, 10)}
\* with the threshold only the best candidates pass
AllThresholds == Thresholds \cup {one}
TopKs == {1, 2}

(***************************************************************************)
(* RetrievalService.reciprocalRankFusion                                   *)
(***************************************************************************)
rrfK == 60

RECURSIVE product(_, _)
product(from, to) == IF from > to THEN 1 ELSE from * product(from + 1, to)

\* Raw scores are kept as integers: 1 / (rrfK + rank + 1) times rrfScale, a
\* common multiple of every denominator the lists hybridSearch asks for
\* (topK * 2 results each) can produce.
rrfScale == product(rrfK + 1, rrfK + 2 * (CHOOSE k \in TopKs : \A o \in TopKs : o <= k))

\* 1 / (this.rrfK + rank + 1), rank counted from 0
rrfScore(rank) == rrfScale \div (rrfK + rank + 1)

RECURSIVE sumOver(_, _)
sumOver(f, S) ==
  IF S = {} THEN 0
  ELSE LET i == CHOOSE i \in S : TRUE IN f[i] + sumOver(f, S \ {i})

idsOf(results) == [i \in 1..Len(results) |-> results[i].id]

\* a fusion that keeps only the ids both lists hold
scoreMapValuesBothLists(bm25Results, semanticResults, bm25OnlyChunks) ==
  LET semIds == idsOf(semanticResults)
      bmIds == idsOf(bm25Results)
      InBoth(id) == id \in Range(bmIds)
      order == SelectSeq(unique(semIds), InBoth)
      position(ids, id) == CHOOSE i \in 1..Len(ids) : ids[i] = id
  IN [i \in 1..Len(order) |->
        [id |-> order[i],
         score |-> rrfScore(position(semIds, order[i]) - 1)
                   + rrfScore(position(bmIds, order[i]) - 1)]]

\* a fusion that also keeps the sparse-only ids whose chunk was not fetched
scoreMapValuesKeepMissing(bm25Results, semanticResults, bm25OnlyChunks) ==
  LET semIds == idsOf(semanticResults)
      bmIds == idsOf(bm25Results)
      NotSemantic(id) == id \notin Range(semIds)
      order == unique(semIds) \o unique(SelectSeq(bmIds, NotSemantic))
      rankScore(ids, id) ==
        IF id \in Range(ids)
          THEN rrfScore((CHOOSE i \in 1..Len(ids) : ids[i] = id) - 1)
          ELSE 0
  IN [i \in 1..Len(order) |->
        [id |-> order[i], score |-> rankScore(semIds, order[i]) + rankScore(bmIds, order[i])]]

\* a fusion that inserts the sparse-only results before the semantic ones
scoreMapValuesSparseFirst(bm25Results, semanticResults, bm25OnlyChunks) ==
  LET semIds == idsOf(semanticResults)
      bmIds == idsOf(bm25Results)
      InMapOnly(id) == id \notin Range(semIds) /\ id \in bm25OnlyChunks
      order == unique(SelectSeq(bmIds, InMapOnly)) \o unique(semIds)
      rankScore(ids, id) ==
        IF id \in Range(ids)
          THEN rrfScore((CHOOSE i \in 1..Len(ids) : ids[i] = id) - 1)
          ELSE 0
  IN [i \in 1..Len(order) |->
        [id |-> order[i], score |-> rankScore(semIds, order[i]) + rankScore(bmIds, order[i])]]

\* The entries of scoreMap in insertion order, with their summed scores:
\* the semantic results first, then the BM25 results that are not among
\* them and whose chunk is in bm25OnlyMap (the others are not inserted).
scoreMapValues(bm25Results, semanticResults, bm25OnlyChunks) ==
  LET semIds == idsOf(semanticResults)
      bmIds == idsOf(bm25Results)
      InMapOnly(id) == id \notin Range(semIds) /\ id \in bm25OnlyChunks
      order == unique(semIds) \o unique(SelectSeq(bmIds, InMapOnly))
      semScore(id) ==
        IF id \in Range(semIds)
          THEN rrfScore((CHOOSE i \in 1..Len(semIds) :
                           semIds[i] = id /\ \A j \in 1..Len(semIds) : semIds[j] = id => j <= i) - 1)
          ELSE 0
      bmScore(id) ==
        sumOver([i \in 1..Len(bmIds) |-> rrfScore(i - 1)],
                {i \in 1..Len(bmIds) : bmIds[i] = id})
  IN [i \in 1..Len(order) |-> [id |-> order[i], score |-> semScore(order[i]) + bmScore(order[i])]]

\* sorted by fused score, before normalization
fusedRaw(bm25Results, semanticResults, bm25OnlyChunks) ==
  sortDesc(scoreMapValues(bm25Results, semanticResults, bm25OnlyChunks), IntGreater)

\* a normalization that divides by the range whatever it is
normalizeUnguarded(sorted) ==
  IF Len(sorted) = 0 THEN <<>>
  ELSE LET minScore == sorted[Len(sorted)].score
           scoreRange == sorted[1].score - minScore
       IN [i \in 1..Len(sorted) |->
             [id |-> sorted[i].id, score |-> ratio(sorted[i].score - minScore, scoreRange)]]

\* (score - minScore) / scoreRange, or 1.0 when the range is 0
normalize(sorted) ==
  IF Len(sorted) = 0 THEN <<>>
  ELSE LET maxScore == sorted[1].score
           minScore == sorted[Len(sorted)].score
           scoreRange == maxScore - minScore
       IN IF scoreRange > 0
            THEN [i \in 1..Len(sorted) |->
                    [id |-> sorted[i].id, score |-> ratio(sorted[i].score - minScore, scoreRange)]]
            ELSE [i \in 1..Len(sorted) |-> [id |-> sorted[i].id, score |-> one]]

reciprocalRankFusion(bm25Results, semanticResults, bm25OnlyChunks) ==
  normalize(fusedRaw(bm25Results, semanticResults, bm25OnlyChunks))

\* a fetch that asks for every chunk in a request of its own
fetchEachChunk(ids) == Len(ids)

\* vectorStoreService.getChunksByIds(bm25OnlyIds): the requests sent to the
\* vector database, one client.retrieve for all the ids
fetchRoundTrips(ids) == 1

\* bm25OnlyIds of hybridSearch
bm25OnlyIds(bm25Results, semanticResults) ==
  LET NotSemantic(id) == id \notin Range(idsOf(semanticResults))
  IN SelectSeq(idsOf(bm25Results), NotSemantic)

\* results.filter(r => r.score >= similarityThreshold)
filterByThreshold(results, similarityThreshold) ==
  LET Passes(r) == geq(r.score, similarityThreshold)
  IN SelectSeq(results, Passes)

\* a retrieve that truncates and does not filter
topKUnfiltered(fusedResults, topK, similarityThreshold) == slice(fusedResults, topK)

\* retrieve, hybrid branch: top K after fusion, then the threshold filter
topKFiltered(fusedResults, topK, similarityThreshold) ==
  filterByThreshold(slice(fusedResults, topK), similarityThreshold)

(***************************************************************************)
(* State                                                                   *)
(***************************************************************************)
Calls == {1}

\* retrieve is called at most MaxRetrieves times in a behaviour.
MaxRetrieves == 2

VARIABLES
  points,    \* the vector store: the chunk ids it holds
  index,     \* the BM25Service singleton: [built, bm25, documents, documentIds]
  cache,     \* the NodeCache of the retrieval service: key -> stored list
  calls,     \* the retrieve calls: position, arguments, locals, outcome
  prev,      \* what the last completed retrieve call saw and returned
  started,   \* how many retrieve calls were made
  returned,  \* key -> the list the last miss returned for it, until its
             \* TTL expires or the cache is flushed
  hashOf,    \* the content_hash payload of each point of the vector store
  runs,      \* the ingestion requests: position, locals, what they did
  file       \* data/bm25-index.json: absent, or [documents, documentIds]

vars == <<points, index, cache, calls, prev, started, returned, hashOf, runs, file>>

maxKeys == 1000

Keys == {<<cacheKeyOf[q], k>> : q \in Questions, k \in TopKs}

\* The chat request that awaits the call, before retrieve has settled.
idleChat ==
  [pc |-> "none",           \* "generating", "posting", "streaming", "answered" or "failed"
   handler |-> "none", answer |-> <<>>, citations |-> <<>>,
   sent |-> <<>>,           \* what onChunk was called with
   generations |-> 0,       \* calls of generateRAGResponse and generateRAGResponseStream
   fullAnswer |-> <<>>,     \* the pieces appended to fullAnswer
   promise |-> "none",      \* of generateRAGResponseStream: "pending", "resolved", "rejected"
   stream |-> "none"]       \* response.data: "open", "ended", "errored"

idleCall ==
  [pc |-> "idle", question |-> "", topK |-> 0, similarityThreshold |-> zero,
   expandedQuery |-> "", chat |-> idleChat,
   semanticResults |-> <<>>, bm25Results |-> <<>>, bm25OnlyChunks |-> {},
   fusedResults |-> <<>>, results |-> <<>>,
   outcome |-> "none",      \* "hit", "returned" or "threw"
   error |-> "none",        \* what retrieve threw
   raised |-> {},           \* the errors the calls it made raised
   live |-> [found |-> FALSE, value |-> <<>>],
                            \* the list an earlier call returned for the same
                            \* key less than the TTL before this call started
   sparseIdle |-> FALSE,    \* the BM25 side had no index or no query token
   wrote |-> FALSE,         \* the call stored a cache entry
   embedCalls |-> 0, denseCalls |-> 0, sparseCalls |-> 0, fetchCalls |-> 0]

\* What is kept of a completed call when the next one starts.
summary(call) ==
  [pc |-> "done", question |-> call.question, topK |-> call.topK,
   similarityThreshold |-> call.similarityThreshold, outcome |-> call.outcome,
   results |-> call.results, raised |-> call.raised]

noCall == [summary(idleCall) EXCEPT !.pc = "idle"]

\* this.cache.get(key): an expired or absent key gives undefined
cacheGet(key) ==
  IF key \in DOMAIN cache THEN [found |-> TRUE, value |-> cache[key]]
  ELSE [found |-> FALSE, value |-> <<>>]

\* a check that takes an empty cached list for a miss
truthyNonEmpty(cached) == cached.found /\ Len(cached.value) > 0

\* if (cached): an array is truthy, the empty one too; undefined is not
truthy(cached) == cached.found

\* this.cache.set(key, value) throws ECACHEFULL at maxKeys stored keys
cacheFull == Cardinality(DOMAIN cache) >= maxKeys

\* a set that stores the list without its last entry
cacheSetPartial(key, value) ==
  [k \in DOMAIN cache \cup {key} |->
     IF k = key THEN SubSeq(value, 1, Len(value) - 1) ELSE cache[k]]

cacheSet(key, value) ==
  [k \in DOMAIN cache \cup {key} |-> IF k = key THEN value ELSE cache[k]]

without(f, key) == [k \in DOMAIN f \ {key} |-> f[k]]

(***************************************************************************)
(* Ingestion state.  A page is scraped in one of its versions: version 0   *)
(* is a page of fewer than 100 characters, an odd version the whole page,  *)
(* an even version the page cut to its first half.  The scraper's          *)
(* contentHash of a version is the version's number.                       *)
(***************************************************************************)
MaxVersions == 2
Versions == 0..MaxVersions

\* the ingestion requests a behaviour makes
MaxRuns == 2
Runs == 1..MaxRuns

Triggers == {"manual", "wordpress", "scheduled"}

\* sitemapService.getKnowellaUrls
sitemapUrls == <<"A", "B">>

\* The ids generateId gives the chunks chunkText cuts a version into.
chunksOf(url, version) ==
  LET all == {id \in ChunkIds : corpus[id].url = url}
      firstHalf == {id \in all :
                      Cardinality({j \in all : j <= id}) <= (Cardinality(all) + 1) \div 2}
  IN IF version = 0 THEN {} ELSE IF version % 2 = 1 THEN all ELSE firstHalf

noFile == [exists |-> FALSE, documents |-> <<>>, documentIds |-> <<>>]

idleRun ==
  [pc |-> "idle",
   handler |-> "none",     \* "ingestKnowella", "ingestSingleUrl", "rebuild-bm25"
   trigger |-> "none",     \* of ingestKnowella
   urls |-> <<>>,          \* the urls still to process
   url |-> "", contentHash |-> 0,
   processed |-> 0,        \* processUrl calls that completed
   threw |-> FALSE,        \* the last processUrl call threw
   stored |-> {},          \* the hashes the url's points held at the lookup
   found |-> FALSE,        \* the lookup of the last processUrl call succeeded
   existingHash |-> 0,     \* and read this content_hash (0: no point)
   hasChanged |-> TRUE,
   deletes |-> 0, embeds |-> 0, upserts |-> 0,
                           \* calls the last processUrl call made
   saves |-> 0,            \* saveIndex calls that wrote the file
   indexData |-> noFile,   \* what saveIndex is writing
   chunker |-> [pc |-> "idle", sentences |-> <<>>, chunks |-> <<>>],
                           \* the chunkText call of processUrl
   error |-> "none"]

Init ==
  /\ points = {}
  /\ index = emptyIndex
  /\ cache = <<>>
  /\ calls = [c \in Calls |-> idleCall]
  /\ prev = noCall
  /\ started = 0
  /\ returned = <<>>
  /\ hashOf = <<>>
  /\ runs = [r \in Runs |-> idleRun]
  /\ file = noFile

(***************************************************************************)
(* RetrievalService.retrieve, one action per stretch between two awaits    *)
(***************************************************************************)
\* retrieve is called: the cache check, and on a miss the embedding
\* request is sent.  keepPrevious: the record of the call that completed
\* before is kept in prev.
RetrieveKeeping(c, question, topK, similarityThreshold, keepPrevious, bound) ==
  /\ calls[c].pc \in {"idle", "done"}
  /\ started < bound
  /\ started' = started + 1
  /\ LET cacheKey == <<cacheKeyOf[question], topK>>
         cached == cacheGet(cacheKey)
         begun == [idleCall EXCEPT !.question = question, !.topK = topK,
                                     !.similarityThreshold = similarityThreshold,
                                     !.live = IF cacheKey \in DOMAIN returned
                                                THEN [found |-> TRUE, value |-> returned[cacheKey]]
                                                ELSE [found |-> FALSE, value |-> <<>>]]
     IN calls' = [calls EXCEPT ![c] =
          IF truthy(cached)
            THEN [begun EXCEPT !.pc = "done", !.outcome = "hit", !.results = cached.value]
            ELSE [begun EXCEPT !.pc = "embedding", !.embedCalls = @ + 1]]
  /\ prev' = IF keepPrevious /\ calls[c].pc = "done" THEN summary(calls[c]) ELSE prev
  /\ UNCHANGED <<points, index, cache, returned, hashOf, runs, file>>

Retrieve(c, question, topK, similarityThreshold) ==
  RetrieveKeeping(c, question, topK, similarityThreshold, FALSE, MaxRetrieves)

\* a retrieve that answers a failed provider call with an empty list
answersEmpty(call, error) ==
  [call EXCEPT !.pc = "done", !.outcome = "returned", !.raised = @ \cup {error}]

\* catch (error) { throw error }: retrieve rejects with the error.
throws(call, error) ==
  [call EXCEPT !.pc = "done", !.outcome = "threw", !.error = error,
               !.raised = @ \cup {error}]

\* The end of retrieve on a miss: fusion, top K, threshold, cache.set.
finish(call, bm25OnlyChunks) ==
  LET fusedResults == reciprocalRankFusion(call.bm25Results, call.semanticResults,
                                           bm25OnlyChunks)
      results == topKFiltered(fusedResults, call.topK, call.similarityThreshold)
      done == [call EXCEPT !.bm25OnlyChunks = bm25OnlyChunks,
                           !.fusedResults = fusedResults, !.results = results]
  IN IF cacheFull THEN throws(done, "ECACHEFULL")
     ELSE [done EXCEPT !.pc = "done", !.outcome = "returned"]

\* How retrieve ends: cache.set runs on the return path only.
settle(c, call) ==
  LET cacheKey == <<cacheKeyOf[call.question], call.topK>> IN
  /\ calls' = [calls EXCEPT ![c] = [call EXCEPT !.wrote = call.outcome = "returned"]]
  /\ IF call.outcome = "returned"
       THEN /\ cache' = cacheSet(cacheKey, call.results)
            /\ returned' = [k \in DOMAIN returned \cup {cacheKey} |->
                              IF k = cacheKey THEN call.results ELSE returned[k]]
       ELSE UNCHANGED <<cache, returned>>

\* generateEmbedding resolved: the vector search is sent.
EmbeddingReturns(c) ==
  /\ calls[c].pc = "embedding"
  /\ calls' = [calls EXCEPT ![c].pc = "searching", ![c].denseCalls = @ + 1]
  /\ UNCHANGED <<points, index, cache, prev, started, returned, hashOf, runs, file>>

\* generateEmbedding rejected (it logs and rethrows).
EmbeddingFails(c) ==
  /\ calls[c].pc = "embedding"
  /\ settle(c, throws(calls[c], "embedding"))
  /\ UNCHANGED <<points, index, prev, started, hashOf, runs, file>>

\* vectorStoreService.search resolved: query expansion and the BM25 search
\* run at once; with BM25-only ids their chunks are requested, without any
\* retrieve runs to its end.
SearchReturns(c) ==
  /\ calls[c].pc = "searching"
  /\ LET call == calls[c]
         semanticResults == vectorSearch(points, call.question, call.topK * 2)
         expandedQuery == expandedQueryOf[call.question]
         bm25Results == bm25Search(index, expandedQuery, call.topK * 2)
         searched == [call EXCEPT !.semanticResults = semanticResults,
                                  !.expandedQuery = expandedQuery,
                                  !.bm25Results = bm25Results,
                                  !.sparseCalls = @ + 1,
                                  !.sparseIdle = \/ ~index.built
                                                 \/ Len(index.documents) = 0
                                                 \/ Len(queryTokensOf[expandedQuery]) = 0]
     IN IF Len(bm25OnlyIds(bm25Results, semanticResults)) > 0
          THEN /\ calls' = [calls EXCEPT ![c] =
                    [searched EXCEPT !.pc = "fetching",
                                     !.fetchCalls = @ + fetchRoundTrips(
                                        bm25OnlyIds(bm25Results, semanticResults))]]
               /\ UNCHANGED <<cache, returned>>
          ELSE settle(c, finish(searched, {}))
  /\ UNCHANGED <<points, index, prev, started, hashOf, runs, file>>

\* vectorStoreService.search rejected (it logs and rethrows).
SearchFails(c) ==
  /\ calls[c].pc = "searching"
  /\ settle(c, throws(calls[c], "search"))
  /\ UNCHANGED <<points, index, prev, started, hashOf, runs, file>>

\* getChunksByIds resolved with the chunks that exist.
FetchReturns(c) ==
  /\ calls[c].pc = "fetching"
  /\ LET call == calls[c]
         ids == bm25OnlyIds(call.bm25Results, call.semanticResults)
     IN settle(c, finish(call, getChunksByIds(points, ids)))
  /\ UNCHANGED <<points, index, prev, started, hashOf, runs, file>>

\* client.retrieve rejected: getChunksByIds logs the error and returns [].
FetchFails(c) ==
  /\ calls[c].pc = "fetching"
  /\ LET call == [calls[c] EXCEPT !.raised = @ \cup {"fetch"}]
     IN settle(c, finish(call, {}))
  /\ UNCHANGED <<points, index, prev, started, hashOf, runs, file>>

(***************************************************************************)
(* The cache's timer and flush, the vector store's and the index's writers *)
(***************************************************************************)
\* stdTTL seconds after its set, an entry is gone for every later get.
TtlExpires(key) ==
  /\ key \in DOMAIN cache
  /\ cache' = without(cache, key)
  /\ returned' = without(returned, key)
  /\ UNCHANGED <<points, index, calls, prev, started, hashOf, runs, file>>

\* RetrievalService.clearCache
ClearCache ==
  /\ cache # <<>>
  /\ cache' = <<>>
  /\ returned' = <<>>
  /\ UNCHANGED <<points, index, calls, prev, started, hashOf, runs, file>>

\* VectorStoreService.upsertChunks with the chunks of one page
UpsertChunks(url) ==
  /\ points' = points \cup {id \in ChunkIds : corpus[id].url = url}
  /\ points' # points
  /\ hashOf' = [id \in points' |-> IF id \in points THEN hashOf[id] ELSE 1]
  /\ UNCHANGED <<index, cache, calls, prev, started, returned, runs, file>>

\* VectorStoreService.deleteByUrl
DeleteByUrl(url) ==
  /\ points' = points \ {id \in ChunkIds : corpus[id].url = url}
  /\ points' # points
  /\ hashOf' = [id \in points' |-> hashOf[id]]
  /\ UNCHANGED <<index, cache, calls, prev, started, returned, runs, file>>

\* IngestionController.buildBM25Index run to its end with no other request
\* in between: the index is rebuilt from all the chunks of the store,
\* unless it holds none, and saved.
BuildBM25Index ==
  /\ getAllChunks(points) # <<>>
  /\ index' = builtIndex(getAllChunks(points))
  /\ index' # index
  /\ file' = [exists |-> TRUE, documents |-> index'.documents,
              documentIds |-> index'.documentIds]
  /\ UNCHANGED <<points, cache, calls, prev, started, returned, hashOf, runs>>

Next ==
  \/ \E c \in Calls, q \in Questions, k \in TopKs, t \in Thresholds : Retrieve(c, q, k, t)
  \/ \E c \in Calls : EmbeddingReturns(c)
  \/ \E c \in Calls : EmbeddingFails(c)
  \/ \E c \in Calls : SearchReturns(c)
  \/ \E c \in Calls : SearchFails(c)
  \/ \E c \in Calls : FetchReturns(c)
  \/ \E c \in Calls : FetchFails(c)
  \/ \E key \in Keys : TtlExpires(key)
  \/ ClearCache
  \/ \E url \in Urls : UpsertChunks(url)
  \/ \E url \in Urls : DeleteByUrl(url)
  \/ BuildBM25Index

Spec == Init /\ [][Next]_vars

(***************************************************************************)
(* Repeated calls against a settled store and index: ingestion runs before *)
(* the first question, then calls follow one another and each is compared  *)
(* with the one before.                                                    *)
(***************************************************************************)
MaxRepeated == 3

RetrieveAgain(c, question, topK, similarityThreshold) ==
  RetrieveKeeping(c, question, topK, similarityThreshold, TRUE, MaxRepeated)

NextSettled ==
  \/ \E c \in Calls, q \in Questions, k \in TopKs, t \in AllThresholds :
        RetrieveAgain(c, q, k, t)
  \/ \E c \in Calls : EmbeddingReturns(c)
  \/ \E c \in Calls : SearchReturns(c)
  \/ \E c \in Calls : FetchReturns(c)
  \/ \E c \in Calls : FetchFails(c)
  \/ \E key \in Keys : TtlExpires(key)
  \/ ClearCache
  \/ \E url \in Urls : started = 0 /\ UpsertChunks(url)
  \/ started = 0 /\ BuildBM25Index

SpecSettled == Init /\ [][NextSettled]_vars

(***************************************************************************)
(* Properties of retrieve                                                  *)
(***************************************************************************)
\* the call ended by returning a list, from the cache or computed
Answered(call) == call.pc = "done" /\ call.outcome \in {"hit", "returned"}

\* the call ran the fusion to its end and returned its list
Fused(call) == call.pc = "done" /\ call.outcome = "returned"

gt(a, b) == a.n * b.d > b.n * a.d

Occurrences(seq, x) == Cardinality({i \in 1..Len(seq) : seq[i] = x})

position(ids, id) == CHOOSE i \in 1..Len(ids) : ids[i] = id

\* C1: every result retrieve returns has a score at or above the
\* similarityThreshold of that call, whatever calls were made before it.
C1_ScoresMeetThreshold ==
  \A c \in Calls :
    Answered(calls[c]) =>
      \A i \in 1..Len(calls[c].results) :
        geq(calls[c].results[i].score, calls[c].similarityThreshold)

\* C2: a call made while the list an earlier call returned for the same
\* question and topK is younger than the TTL is a cache hit that returns
\* that list, the empty one too, without an embedding, dense or sparse
\* call; the call that computed the list made each of them once.
C2_SecondCallServedFromCache ==
  \A c \in Calls :
    LET call == calls[c] IN
    /\ (call.pc # "idle" /\ call.live.found) =>
         /\ call.pc = "done"
         /\ call.outcome = "hit"
         /\ call.results = call.live.value
         /\ call.embedCalls = 0 /\ call.denseCalls = 0 /\ call.sparseCalls = 0
    /\ Fused(call) =>
         call.embedCalls = 1 /\ call.denseCalls = 1 /\ call.sparseCalls = 1

\* C2 happens: an empty list was returned, and the next call for its key
\* was served from the cache.
C2_EmptyListServedFromCache ==
  \E c \in Calls :
    /\ calls[c].pc = "done"
    /\ calls[c].outcome = "hit"
    /\ calls[c].live.found
    /\ calls[c].live.value = <<>>

\* C3: with the store and the index unchanged, of two calls with the same
\* question and topK the one with the higher threshold returns a list no
\* longer than the other's, in whatever order and cache state they are made.
C3_HigherThresholdNotLonger ==
  \A c \in Calls :
    LET call == calls[c] IN
    (/\ Answered(prev) /\ Answered(call)
     /\ prev.question = call.question /\ prev.topK = call.topK) =>
      /\ gt(call.similarityThreshold, prev.similarityThreshold) =>
           Len(call.results) <= Len(prev.results)
      /\ gt(prev.similarityThreshold, call.similarityThreshold) =>
           Len(prev.results) <= Len(call.results)

\* C4: with the store and the index unchanged, two calls with the same
\* question, topK and threshold that both miss the cache (it was cleared or
\* the entry expired in between) return the same list.
C4_RepeatedMissSameList ==
  \A c \in Calls :
    LET call == calls[c] IN
    (/\ Fused(prev) /\ Fused(call)
     /\ prev.question = call.question /\ prev.topK = call.topK
     /\ prev.similarityThreshold = call.similarityThreshold) =>
      call.results = prev.results

\* C5 as stated: every id of the dense or of the sparse result list is in
\* the fused set exactly once (here for the calls none of whose provider
\* calls failed).
C5_EveryIdFusedOnce ==
  \A c \in Calls :
    LET call == calls[c] IN
    (Fused(call) /\ call.raised = {}) =>
      \A id \in Range(idsOf(call.semanticResults)) \cup Range(idsOf(call.bm25Results)) :
        Occurrences(idsOf(call.fusedResults), id) = 1

\* C5: the fused set holds exactly once every id of the dense list and
\* every id of the sparse list whose chunk the fetch by id returned, and no
\* other; each is scored by the lists that hold it, a list that does not
\* hold it contributing 0.
C5_FetchedIdsFusedOnce ==
  \A c \in Calls :
    LET call == calls[c]
        semIds == idsOf(call.semanticResults)
        bmIds == idsOf(call.bm25Results)
        kept == Range(semIds) \cup (Range(bmIds) \cap call.bm25OnlyChunks)
        raw == fusedRaw(call.bm25Results, call.semanticResults, call.bm25OnlyChunks)
        expected(id) ==
          (IF id \in Range(semIds) THEN rrfScore(position(semIds, id) - 1) ELSE 0)
          + (IF id \in Range(bmIds) THEN rrfScore(position(bmIds, id) - 1) ELSE 0)
    IN Fused(call) =>
         /\ Range(idsOf(call.fusedResults)) = kept
         /\ \A id \in kept : Occurrences(idsOf(call.fusedResults), id) = 1
         /\ idsOf(raw) = idsOf(call.fusedResults)
         /\ \A i \in 1..Len(raw) : raw[i].score = expected(raw[i].id)

\* C5 happens: a fusion of a chunk only the dense list holds with a chunk
\* only the sparse list holds, whose metadata was fetched.
C5_SparseOnlyChunkFused ==
  \E c \in Calls :
    LET call == calls[c]
        semIds == Range(idsOf(call.semanticResults))
        bmIds == Range(idsOf(call.bm25Results))
    IN /\ Fused(call)
       /\ semIds \ bmIds # {}
       /\ (bmIds \ semIds) \cap call.bm25OnlyChunks # {}
       /\ (bmIds \ semIds) \cap Range(idsOf(call.fusedResults)) # {}

\* C6: every normalized fused score is a number in [0, 1]; when all the
\* raw fused scores are equal, a single candidate included, every
\* normalized score is 1.
C6_NormalizedWithinUnit ==
  \A c \in Calls :
    LET call == calls[c]
        raw == fusedRaw(call.bm25Results, call.semanticResults, call.bm25OnlyChunks)
    IN Fused(call) =>
         /\ \A i \in 1..Len(call.fusedResults) :
              /\ isNumber(call.fusedResults[i].score)
              /\ geq(call.fusedResults[i].score, zero)
              /\ geq(one, call.fusedResults[i].score)
         /\ (\A i, j \in 1..Len(raw) : raw[i].score = raw[j].score) =>
              \A i \in 1..Len(call.fusedResults) : call.fusedResults[i].score = one

\* C6 happens: several candidates were fused with equal raw scores.
C6_TiedCandidates ==
  \E c \in Calls :
    LET call == calls[c]
        raw == fusedRaw(call.bm25Results, call.semanticResults, call.bm25OnlyChunks)
    IN /\ Fused(call)
       /\ Len(call.fusedResults) >= 2
       /\ \A i, j \in 1..Len(raw) : raw[i].score = raw[j].score

\* the question shares no token with any chunk, and its similarity with
\* every chunk is under 0.3
Unrelated(question) ==
  /\ \A id \in ChunkIds : similarity[question][id] * 10 < 3 * 100
  /\ \A id \in ChunkIds :
       Range(queryTokensOf[expandedQueryOf[question]]) \cap Range(corpusTokens[id]) = {}

\* C7: over a store and a BM25 index that are not empty, a question
\* unrelated to every chunk asked with threshold 0.3 gets the empty list.
C7_UnrelatedQuestionGetsNothing ==
  \A c \in Calls :
    LET call == calls[c] IN
    (/\ Fused(call)
     /\ Unrelated(call.question) /\ Len(queryTokensOf[expandedQueryOf[call.question]]) > 0
     /\ call.similarityThreshold = ratio(3, 10)
     /\ call.semanticResults # <<>> /\ ~call.sparseIdle) =>
      call.results = <<>>

\* C8: when the embedding request or the dense search fails, retrieve
\* rejects with that error: it returns no list, runs no sparse search in
\* place of the dense one, and stores no cache entry.
C8_ProviderFailureRejects ==
  \A c \in Calls :
    LET call == calls[c] IN
    call.raised \cap {"embedding", "search"} # {} =>
      /\ call.pc = "done"
      /\ call.outcome = "threw"
      /\ call.error \in call.raised
      /\ call.results = <<>>
      /\ call.sparseCalls = 0
      /\ ~call.wrote

\* C8 happens: the dense search of a call failed while the cache held
\* entries of earlier calls.
C8_DenseSearchFailed ==
  \E c \in Calls :
    /\ "search" \in calls[c].raised
    /\ calls[c].pc = "done"
    /\ cache # <<>>

\* C9: an error of the vector store, in the search or in the fetch by id,
\* makes retrieve reject with it; no call is made a second time.
C9_VectorStoreErrorsPropagate ==
  \A c \in Calls :
    LET call == calls[c] IN
    (call.pc = "done" /\ call.raised \cap {"search", "fetch"} # {}) =>
      /\ call.outcome = "threw"
      /\ call.error \in call.raised
      /\ call.denseCalls <= 1 /\ call.fetchCalls <= 1

\* C10: when the sparse side has nothing to give (the index was never
\* built or is empty, or the expanded query leaves no token), its result is
\* the empty list, nothing is raised, the dense search has run, and
\* retrieve returns the top K over the threshold of the dense results
\* ranked and normalized alone.
C10_NoSparseResultsDenseOnly ==
  \A c \in Calls :
    LET call == calls[c]
        denseRanked == [i \in 1..Len(call.semanticResults) |->
                          [id |-> call.semanticResults[i].id, score |-> rrfScore(i - 1)]]
    IN (call.sparseCalls = 1 /\ call.sparseIdle) =>
         /\ call.bm25Results = <<>>
         /\ call.denseCalls = 1
         /\ call.raised = {}
         /\ Fused(call)
         /\ call.fusedResults = normalize(denseRanked)
         /\ call.results = topKFiltered(normalize(denseRanked), call.topK,
                                        call.similarityThreshold)

\* C10 happens: a question of stop words only met a built index, and the
\* dense results alone were returned.
C10_StopWordQuestionAnswered ==
  \E c \in Calls :
    /\ calls[c].sparseIdle
    /\ index.built
    /\ Fused(calls[c])
    /\ Len(calls[c].results) > 0

\* C11: when the fetch by id answers, a sparse-only id whose chunk is not
\* in the store at that moment is left out of the fused set, every dense
\* id and every sparse-only id whose chunk is in the store is in it, and
\* retrieve returns the top K over the threshold of that fused set.
C11_MissingChunkDropped ==
  [][\A c \in Calls :
       (/\ calls[c].pc = "fetching"
        /\ calls'[c].pc = "done"
        /\ "fetch" \notin calls'[c].raised) =>
         LET sparseOnly == Range(bm25OnlyIds(calls[c].bm25Results, calls[c].semanticResults))
             fused == Range(idsOf(calls'[c].fusedResults))
         IN /\ calls'[c].outcome = "returned"
            /\ fused \cap sparseOnly = sparseOnly \cap points
            /\ Range(idsOf(calls[c].semanticResults)) \subseteq fused
            /\ calls'[c].results = topKFiltered(calls'[c].fusedResults, calls[c].topK,
                                               calls[c].similarityThreshold)]_vars

\* C11 happens: a call returned candidates after the fetch by id found the
\* chunk of a sparse-only hit gone from the store.
C11_DeletedChunkMet ==
  \E c \in Calls :
    LET call == calls[c] IN
    /\ Fused(call)
    /\ call.fetchCalls = 1
    /\ "fetch" \notin call.raised
    /\ Range(bm25OnlyIds(call.bm25Results, call.semanticResults)) \ call.bm25OnlyChunks # {}
    /\ Len(call.results) > 0

\* C14 as stated: a call makes at most one request to the embedding
\* provider and at most one to the vector database, and has the results of
\* the dense and of the sparse search when it fuses.
C14_OneRoundTripEach ==
  \A c \in Calls :
    LET call == calls[c] IN
    /\ call.embedCalls <= 1
    /\ call.denseCalls + call.fetchCalls <= 1
    /\ Fused(call) => call.denseCalls = 1 /\ call.sparseCalls = 1

\* C14: a call makes at most one request to the embedding provider, at
\* most one search request to the vector database and, only when the
\* sparse list holds ids the dense list lacks, at most one more request to
\* it, for their chunks; it has the results of the dense and of the sparse
\* search when it fuses.
C14_RoundTripsBounded ==
  \A c \in Calls :
    LET call == calls[c] IN
    /\ call.embedCalls <= 1
    /\ call.denseCalls <= 1
    /\ call.fetchCalls <= 1
    /\ call.fetchCalls > 0 =>
         bm25OnlyIds(call.bm25Results, call.semanticResults) # <<>>
    /\ (Fused(call) \/ call.fusedResults # <<>>) =>
         call.denseCalls = 1 /\ call.sparseCalls = 1

\* C14 happens: a call fetched the chunks of several sparse-only ids and
\* fused.
C14_SeveralChunksFetched ==
  \E c \in Calls :
    /\ Fused(calls[c])
    /\ calls[c].fetchCalls = 1
    /\ Len(bm25OnlyIds(calls[c].bm25Results, calls[c].semanticResults)) >= 2

(***************************************************************************)
(* Calls with different spellings of one question, after ingestion; no     *)
(* entry expires.                                                          *)
(***************************************************************************)
NextKeys ==
  \/ \E c \in Calls, q \in KeyQuestions, k \in TopKs, t \in Thresholds :
        RetrieveAgain(c, q, k, t)
  \/ \E c \in Calls : EmbeddingReturns(c)
  \/ \E c \in Calls : SearchReturns(c)
  \/ \E c \in Calls : FetchReturns(c)
  \/ \E url \in Urls : started = 0 /\ UpsertChunks(url)
  \/ started = 0 /\ BuildBM25Index

SpecKeys == Init /\ [][NextKeys]_vars

\* the two spellings differ in letter case and outer whitespace only
SameQuestion(q1, q2) ==
  \/ q1 = q2
  \/ {q1, q2} = {"Safety risk", " SAFETY Risk  "}

\* C18: a call whose question differs from the previous call's in letter
\* case or outer whitespace only, with the same topK, is a cache hit that
\* returns the previous call's list as it was stored, without any search;
\* the second call of all is no hit when its topK or its question (beyond
\* case and outer whitespace) differs from the first call's.
C18_KeyIsNormalizedQuestionAndTopK ==
  \A c \in Calls :
    LET call == calls[c] IN
    (Answered(prev) /\ call.pc # "idle") =>
      /\ (SameQuestion(prev.question, call.question) /\ prev.topK = call.topK) =>
           /\ call.pc = "done"
           /\ call.outcome = "hit"
           /\ call.results = prev.results
           /\ call.embedCalls = 0 /\ call.denseCalls = 0 /\ call.sparseCalls = 0
      /\ (started = 2
          /\ ~(SameQuestion(prev.question, call.question) /\ prev.topK = call.topK)) =>
           call.outcome # "hit"

\* C18 happens: a call was served the list stored for another spelling of
\* its question.
C18_OtherSpellingServed ==
  \E c \in Calls :
    /\ calls[c].outcome = "hit"
    /\ Answered(prev)
    /\ prev.question # calls[c].question
    /\ Len(calls[c].results) > 0

(***************************************************************************)
(* A cache that already holds maxKeys live entries, the lists returned for *)
(* maxKeys other questions.                                                *)
(***************************************************************************)
OtherKeys == {<<ToString(i), 1>> : i \in 1..maxKeys}

InitFull ==
  /\ points = {}
  /\ index = emptyIndex
  /\ cache = [key \in OtherKeys |-> <<>>]
  /\ calls = [c \in Calls |-> idleCall]
  /\ prev = noCall
  /\ started = 0
  /\ returned = [key \in OtherKeys |-> <<>>]
  /\ hashOf = <<>>
  /\ runs = [r \in Runs |-> idleRun]
  /\ file = noFile

NextFull ==
  \/ \E c \in Calls, q \in Questions, k \in TopKs, t \in Thresholds : Retrieve(c, q, k, t)
  \/ \E c \in Calls : EmbeddingReturns(c)
  \/ \E c \in Calls : SearchReturns(c)
  \/ \E c \in Calls : FetchReturns(c)
  \/ \E i \in 1..2 : TtlExpires(<<ToString(i), 1>>)
  \/ \E url \in Urls : started = 0 /\ UpsertChunks(url)
  \/ started = 0 /\ BuildBM25Index

SpecFull == InitFull /\ [][NextFull]_vars

\* C19: the cache never holds more than maxKeys entries, and a call none
\* of whose provider calls failed returns its list and, on a miss, stores
\* it, however many entries the cache holds.
C19_FullCacheStillServes ==
  /\ Cardinality(DOMAIN cache) <= maxKeys
  /\ \A c \in Calls :
       LET call == calls[c] IN
       (call.pc = "done" /\ call.raised \cap {"embedding", "search", "fetch"} = {}) =>
         /\ Answered(call)
         /\ call.outcome = "returned" => call.wrote

(***************************************************************************)
(* Ingestion: IngestionController and the routes that call it, one action  *)
(* per request and per await that settles.  ok = FALSE is the awaited call *)
(* rejecting.                                                              *)
(***************************************************************************)
retrievalVars == <<cache, calls, prev, started, returned>>

pointsOf(url) == points \cap {id \in ChunkIds : corpus[id].url = url}

\* processUrl returned or threw: the loop of ingestKnowella goes on to the
\* next url (a throw is caught and counted) and after the last one to
\* buildBM25Index; ingestSingleUrl answers.
afterProcessUrl(run, threw) ==
  [run EXCEPT !.processed = @ + 1, !.threw = threw,
              !.pc = IF run.handler = "ingestSingleUrl" THEN "done"
                     ELSE IF run.urls # <<>> THEN "scrapeUrl"
                     ELSE "getAllChunks",
              !.error = IF run.handler = "ingestSingleUrl" /\ threw
                          THEN "processUrl" ELSE @]

\* POST /ingest/knowella, POST /webhook/wordpress-update, or the scheduler
\* (its daily job or triggerManualIngestion, trigger "scheduled") calls
\* ingestKnowella.  The scheduler's request is { body: {} }: it has no
\* headers, so that reading the trigger throws before the try block.
IngestKnowella(r, trigger) ==
  /\ runs[r].pc = "idle"
  /\ runs' = [runs EXCEPT ![r] =
       IF trigger = "scheduled"
         THEN [@ EXCEPT !.pc = "done", !.handler = "ingestKnowella",
                        !.trigger = trigger, !.error = "TypeError"]
         ELSE [@ EXCEPT !.pc = "verifyServices", !.handler = "ingestKnowella",
                        !.trigger = trigger]]
  /\ UNCHANGED <<points, index, hashOf, file, retrievalVars>>

\* POST /ingest/single
IngestSingleUrl(r, url) ==
  /\ runs[r].pc = "idle"
  /\ runs' = [runs EXCEPT ![r] =
       [@ EXCEPT !.pc = "verifyServices", !.handler = "ingestSingleUrl",
                 !.urls = <<url>>]]
  /\ UNCHANGED <<points, index, hashOf, file, retrievalVars>>

\* POST /rebuild-bm25
RebuildBM25(r) ==
  /\ runs[r].pc = "idle"
  /\ runs' = [runs EXCEPT ![r] =
       [@ EXCEPT !.pc = "getAllChunks", !.handler = "rebuild-bm25"]]
  /\ UNCHANGED <<points, index, hashOf, file, retrievalVars>>

\* verifyServices and, in ingestKnowella, getKnowellaUrls settle; limit is
\* req.query.limit or the number of urls.
ServicesVerified(r, ok, limit) ==
  /\ runs[r].pc = "verifyServices"
  /\ runs' = [runs EXCEPT ![r] =
       IF ~ok THEN [@ EXCEPT !.pc = "done", !.error = "verifyServices"]
       ELSE IF @.handler = "ingestKnowella"
         THEN [@ EXCEPT !.pc = "scrapeUrl", !.urls = slice(sitemapUrls, limit)]
         ELSE [@ EXCEPT !.pc = "scrapeUrl"]]
  /\ UNCHANGED <<points, index, hashOf, file, retrievalVars>>

\* processUrl: scraperService.scrapeUrl settles with a version of the page
ScrapeSettles(r, ok, version) ==
  /\ runs[r].pc = "scrapeUrl"
  /\ LET run == [runs[r] EXCEPT !.url = Head(runs[r].urls), !.urls = Tail(@),
                                !.contentHash = version, !.threw = FALSE,
                                !.stored = {}, !.found = FALSE,
                                !.existingHash = 0, !.hasChanged = TRUE,
                                !.deletes = 0, !.embeds = 0, !.upserts = 0]
     IN runs' = [runs EXCEPT ![r] =
          IF ~ok THEN afterProcessUrl(run, TRUE)
          ELSE IF version = 0 THEN afterProcessUrl(run, FALSE)
          ELSE [run EXCEPT !.pc = "hasContentChanged"]]
  /\ UNCHANGED <<points, index, hashOf, file, retrievalVars>>

\* a lookup that takes every page for changed
hasContentChangedAlways(existingHash, contentHash) == TRUE

\* VectorStoreService.hasContentChanged once the scroll returned:
\* existingHash is 0 when it returned no point.
hasContentChanged(existingHash, contentHash) == existingHash # contentHash

\* processUrl: hasContentChanged settles.  The scroll reads one point of
\* the url, id (0: the url has none); a scroll that rejects is answered
\* with true.
HasContentChangedSettles(r, ok, id) ==
  /\ runs[r].pc = "hasContentChanged"
  /\ LET url == runs[r].url
         existingHash == IF id = 0 THEN 0 ELSE hashOf[id]
         hasChanged == IF ok THEN hasContentChanged(existingHash, runs[r].contentHash)
                       ELSE TRUE
         run == [runs[r] EXCEPT !.stored = {hashOf[p] : p \in pointsOf(url)},
                                !.found = ok,
                                !.existingHash = IF ok THEN existingHash ELSE 0,
                                !.hasChanged = hasChanged]
     IN /\ IF pointsOf(url) = {} \/ ~ok THEN id = 0 ELSE id \in pointsOf(url)
        /\ runs' = [runs EXCEPT ![r] =
             IF hasChanged THEN [run EXCEPT !.pc = "deleteByUrl", !.deletes = 1]
             ELSE afterProcessUrl(run, FALSE)]
  /\ UNCHANGED <<points, index, hashOf, file, retrievalVars>>

\* processUrl: deleteByUrl settles; it catches the error of a delete that
\* rejects, so that processUrl goes on either way.
DeleteByUrlSettles(r, ok) ==
  /\ runs[r].pc = "deleteByUrl"
  /\ points' = IF ok THEN points \ pointsOf(runs[r].url) ELSE points
  /\ hashOf' = [id \in points' |-> hashOf[id]]
  /\ runs' = [runs EXCEPT ![r] = [@ EXCEPT !.pc = "generateEmbeddings", !.embeds = 1]]
  /\ UNCHANGED <<index, file, retrievalVars>>

\* processUrl: generateEmbeddings settles
EmbeddingsSettle(r, ok) ==
  /\ runs[r].pc = "generateEmbeddings"
  /\ runs' = [runs EXCEPT ![r] =
       IF ok THEN [@ EXCEPT !.pc = "upsertChunks", !.upserts = 1]
       ELSE afterProcessUrl(@, TRUE)]
  /\ UNCHANGED <<points, index, hashOf, file, retrievalVars>>

\* processUrl: upsertChunks settles
UpsertSettles(r, ok) ==
  /\ runs[r].pc = "upsertChunks"
  /\ LET chunks == chunksOf(runs[r].url, runs[r].contentHash) IN
       /\ points' = IF ok THEN points \cup chunks ELSE points
       /\ hashOf' = [id \in points' |->
                       IF ok /\ id \in chunks THEN runs[r].contentHash ELSE hashOf[id]]
  /\ runs' = [runs EXCEPT ![r] = afterProcessUrl(@, ~ok)]
  /\ UNCHANGED <<index, file, retrievalVars>>

\* a rebuild that flushes the retrieval cache
cacheFlushedByRebuild(entries) == <<>>

\* The retrieval cache across an index rebuild: neither buildBM25Index nor
\* buildIndex calls the retrieval service.
cacheAcrossRebuild(entries) == entries

\* buildBM25Index: getAllChunks settles.  With chunks, buildIndex runs up
\* to the await of saveIndex: it resets and refills documents and
\* documentIds and constructs the BM25 object without yielding.
GetAllChunksSettles(r, ok) ==
  /\ runs[r].pc = "getAllChunks"
  /\ IF ok /\ getAllChunks(points) # <<>>
       THEN /\ index' = builtIndex(getAllChunks(points))
            /\ runs' = [runs EXCEPT ![r] = [@ EXCEPT !.pc = "mkdir"]]
       ELSE /\ index' = index
            /\ runs' = [runs EXCEPT ![r] = [@ EXCEPT !.pc = "done"]]
  /\ cache' = cacheAcrossRebuild(cache)
  /\ UNCHANGED <<points, hashOf, file, calls, prev, started, returned>>

\* saveIndex: fs.mkdir settles; indexData is then taken from the index as
\* it is now.  saveIndex catches every error.
MkdirSettles(r, ok) ==
  /\ runs[r].pc = "mkdir"
  /\ runs' = [runs EXCEPT ![r] =
       IF ok THEN [@ EXCEPT !.pc = "writeFile",
                            !.indexData = [exists |-> TRUE,
                                           documents |-> index.documents,
                                           documentIds |-> index.documentIds]]
       ELSE [@ EXCEPT !.pc = "done"]]
  /\ UNCHANGED <<points, index, hashOf, file, retrievalVars>>

\* saveIndex: fs.writeFile settles
WriteFileSettles(r, ok) ==
  /\ runs[r].pc = "writeFile"
  /\ file' = IF ok THEN runs[r].indexData ELSE file
  /\ runs' = [runs EXCEPT ![r] =
       [@ EXCEPT !.pc = "done", !.saves = IF ok THEN @ + 1 ELSE @,
                 !.indexData = noFile]]
  /\ UNCHANGED <<points, index, hashOf, retrievalVars>>

\* BM25Service.loadIndex once readFile settled
loadIndex(f) ==
  IF f.exists
    THEN [built |-> TRUE, bm25 |-> f.documents, documents |-> f.documents,
          documentIds |-> f.documentIds]
    ELSE emptyIndex

\* The process is restarted: the requests in progress are lost, the cache
\* is a new one, and startServer loads the index before it listens.
Restart ==
  /\ \E r \in Runs : runs[r].pc \notin {"idle", "done"}
  /\ runs' = [r \in Runs |->
       IF runs[r].pc \in {"idle", "done"} THEN runs[r]
       ELSE [runs[r] EXCEPT !.pc = "done", !.error = "restart", !.indexData = noFile]]
  /\ index' = loadIndex(file)
  /\ cache' = <<>>
  /\ returned' = <<>>
  /\ calls' = [c \in Calls |-> idleCall]
  /\ UNCHANGED <<points, hashOf, file, prev, started>>

NextIngest ==
  \/ \E r \in Runs, trigger \in Triggers : IngestKnowella(r, trigger)
  \/ \E r \in Runs, url \in Urls : IngestSingleUrl(r, url)
  \/ \E r \in Runs : RebuildBM25(r)
  \/ \E r \in Runs, ok \in BOOLEAN, limit \in 1..Len(sitemapUrls) : ServicesVerified(r, ok, limit)
  \/ \E r \in Runs, ok \in BOOLEAN, version \in Versions : ScrapeSettles(r, ok, version)
  \/ \E r \in Runs, ok \in BOOLEAN, id \in {0} \cup ChunkIds : HasContentChangedSettles(r, ok, id)
  \/ \E r \in Runs, ok \in BOOLEAN : DeleteByUrlSettles(r, ok)
  \/ \E r \in Runs, ok \in BOOLEAN : EmbeddingsSettle(r, ok)
  \/ \E r \in Runs, ok \in BOOLEAN : UpsertSettles(r, ok)
  \/ \E r \in Runs, ok \in BOOLEAN : GetAllChunksSettles(r, ok)
  \/ \E r \in Runs, ok \in BOOLEAN : MkdirSettles(r, ok)
  \/ \E r \in Runs, ok \in BOOLEAN : WriteFileSettles(r, ok)
  \/ Restart

SpecIngest == Init /\ [][NextIngest]_vars

(***************************************************************************)
(* Properties of ingestion                                                 *)
(***************************************************************************)
InProgress(r) == runs[r].pc \notin {"idle", "done"}

Rebuilding(r) == InProgress(r) /\ runs[r].handler \in {"ingestKnowella", "rebuild-bm25"}

\* C12: at most one ingestion run (ingestKnowella from a route, the
\* webhook or the scheduler, or the rebuild-bm25 route) is in progress at
\* any time.
C12_OneRebuildAtATime == Cardinality({r \in Runs : Rebuilding(r)}) <= 1

OneSnapshot(idx) ==
  \/ idx = emptyIndex
  \/ /\ idx.built
     /\ idx.bm25 = idx.documents
     /\ Len(idx.documentIds) = Len(idx.documents)
     /\ \A i \in 1..Len(idx.documentIds) :
          /\ idx.documentIds[i] \in ChunkIds
          /\ idx.documents[i] = corpusTokens[idx.documentIds[i]]
          /\ \A j \in 1..Len(idx.documentIds) : idx.documentIds[j] = idx.documentIds[i] => j = i

\* C13: in every state, so wherever a search can run, documents,
\* documentIds and the statistics of the BM25 object describe one and the
\* same chunk list; and a step that changes the index replaces the
\* previous snapshot by the index completely built from the chunk list
\* getAllChunks returned, or by the one loaded from the file.
C13_NoHalfBuiltIndex ==
  /\ []OneSnapshot(index)
  /\ [][index' # index =>
          index' \in {builtIndex(getAllChunks(points)), loadIndex(file)}]_vars

\* A rebuild has swapped in a new index of several documents while its
\* save is in progress and the file still holds the one before.
C13_SwappedWhileSaving ==
  \E r \in Runs :
    /\ runs[r].pc \in {"mkdir", "writeFile"}
    /\ Len(index.documents) >= 2
    /\ file.exists
    /\ file.documentIds # index.documentIds

\* the step in which the processUrl call of run r returns
ProcessUrlReturns(r) ==
  /\ runs'[r].processed = runs[r].processed + 1
  /\ ~runs'[r].threw

\* C15: when processUrl returns after it took the page for changed and
\* upserted the new version, the store's points of that url are exactly
\* the chunks of the new version, all with the new content hash.
C15_OnlyNewVersionRemains ==
  [][\A r \in Runs :
       (runs[r].pc = "upsertChunks" /\ ProcessUrlReturns(r)) =>
         LET url == runs[r].url
             ofUrl == {id \in points' : corpus[id].url = url}
         IN /\ ofUrl = chunksOf(url, runs[r].contentHash)
            /\ \A id \in ofUrl : hashOf'[id] = runs[r].contentHash]_vars

\* C16: once every started buildIndex call has returned, the file holds
\* the token arrays and the id list of the index in memory.
C16_FileEqualsIndex ==
  ((\A r \in Runs : runs[r].pc \notin {"mkdir", "writeFile"}) /\ index.built) =>
    /\ file.exists
    /\ file.documents = index.documents
    /\ file.documentIds = index.documentIds

\* What the processUrl call of run r has done so far.
NoWrites(r) == runs[r].deletes = 0 /\ runs[r].embeds = 0 /\ runs[r].upserts = 0

Quiet == \A r \in Runs : ~InProgress(r)

NextCached ==
  \/ \E r \in Runs, trigger \in Triggers : Quiet /\ IngestKnowella(r, trigger)
  \/ \E r \in Runs, url \in Urls : Quiet /\ IngestSingleUrl(r, url)
  \/ \E r \in Runs : Quiet /\ RebuildBM25(r)
  \/ \E r \in Runs, ok \in BOOLEAN, limit \in 1..Len(sitemapUrls) : ServicesVerified(r, ok, limit)
  \/ \E r \in Runs, version \in Versions : ScrapeSettles(r, TRUE, version)
  \/ \E r \in Runs, id \in {0} \cup ChunkIds : HasContentChangedSettles(r, TRUE, id)
  \/ \E r \in Runs, ok \in BOOLEAN : DeleteByUrlSettles(r, ok)
  \/ \E r \in Runs : EmbeddingsSettle(r, TRUE)
  \/ \E r \in Runs : UpsertSettles(r, TRUE)
  \/ \E r \in Runs, ok \in BOOLEAN : GetAllChunksSettles(r, ok)
  \/ \E r \in Runs, ok \in BOOLEAN : MkdirSettles(r, ok)
  \/ \E r \in Runs, ok \in BOOLEAN : WriteFileSettles(r, ok)
  \/ \E c \in Calls : Retrieve(c, "Safety risk", 2, zero)
  \/ \E c \in Calls : EmbeddingReturns(c)
  \/ \E c \in Calls : SearchReturns(c)
  \/ \E c \in Calls : FetchReturns(c)
  \/ \E key \in Keys : TtlExpires(key)

SpecCached == Init /\ [][NextCached]_vars

\* C17: no step of an ingestion request changes the retrieval cache, and
\* a call for a key that an earlier call stored less than the TTL ago is
\* answered from the cache with that call's list, whatever ingestion did
\* in between.
C17_IngestionKeepsCache ==
  /\ [][runs' # runs => cache' = cache]_vars
  /\ [](\A c \in Calls :
          (calls[c].pc # "idle" /\ calls[c].live.found) =>
            /\ calls[c].pc = "done"
            /\ calls[c].outcome = "hit"
            /\ calls[c].results = calls[c].live.value)

\* A question is answered from the cache with a list that names a chunk
\* which an ingestion has since removed from the store.
C17_ListFromBeforeIngestionServed ==
  \E c \in Calls :
    /\ calls[c].outcome = "hit"
    /\ \E i \in 1..Len(calls[c].results) : calls[c].results[i].id \notin points

(***************************************************************************)
(* Further properties of retrieve                                          *)
(***************************************************************************)
\* an/ad >= bn/bd for non-negative fractions, by their continued
\* fractions, so that no product is formed
RECURSIVE ratioGeq(_, _, _, _)
ratioGeq(an, ad, bn, bd) ==
  LET qa == an \div ad
      qb == bn \div bd
      ra == an % ad
      rb == bn % bd
  IN IF qa # qb THEN qa > qb
     ELSE IF rb = 0 THEN TRUE
     ELSE IF ra = 0 THEN FALSE
     ELSE ratioGeq(bd, rb, ad, ra)

atLeast(a, b) == isNumber(a) /\ isNumber(b) /\ ratioGeq(a.n, a.d, b.n, b.d)

\* where the dense-first merge puts an id: the dense results in their
\* order, then the sparse results
mergePosition(call, id) ==
  LET semIds == idsOf(call.semanticResults)
      bmIds == idsOf(call.bm25Results)
  IN IF id \in Range(semIds) THEN position(semIds, id)
     ELSE Len(semIds) + position(bmIds, id)

\* C22: the list a miss returns is sorted by non-increasing fused score,
\* and two candidates with equal fused scores stand in the order of the
\* dense-first merge.
C22_SortedStableOnDenseFirstMerge ==
  \A c \in Calls :
    LET call == calls[c] IN
    Fused(call) =>
      \A list \in {call.results, call.fusedResults} :
        \A i, j \in 1..Len(list) :
          i < j =>
            /\ atLeast(list[i].score, list[j].score)
            /\ list[i].score = list[j].score =>
                 mergePosition(call, list[i].id) < mergePosition(call, list[j].id)

\* A returned list holds a dense candidate and, right after it, a
\* sparse-only candidate of the same fused score, with candidates of a
\* lower score behind them.
C22_DenseAndSparseOnlyTied ==
  \E c \in Calls :
    LET call == calls[c] IN
    /\ Fused(call)
    /\ Len(call.results) = 2
    /\ call.results[1].score = call.results[2].score
    /\ call.results[1].id \in Range(idsOf(call.semanticResults))
    /\ call.results[2].id \notin Range(idsOf(call.semanticResults))
    /\ \E k \in 1..Len(call.fusedResults) : call.fusedResults[k].score # one

\* C23: the list a miss returns has at most topK entries and is what
\* filtering all the fused candidates by score >= threshold and then
\* truncating to topK gives.
C23_FilterThenTruncate ==
  \A c \in Calls :
    LET call == calls[c] IN
    Fused(call) =>
      /\ Len(call.results) <= call.topK
      /\ call.results =
           slice(filterByThreshold(call.fusedResults, call.similarityThreshold), call.topK)

\* More candidates were fused than topK, and the threshold removed some
\* but not all of the first topK.
C23_ThresholdCutsInsideTopK ==
  \E c \in Calls :
    LET call == calls[c] IN
    /\ Fused(call)
    /\ Len(call.fusedResults) > call.topK
    /\ Len(call.results) > 0
    /\ Len(call.results) < call.topK

(***************************************************************************)
(* Calls with the questions for expandQuery, after ingestion.              *)
(***************************************************************************)
NextExpand ==
  \/ \E c \in Calls, q \in ExpandQuestions, k \in TopKs, t \in Thresholds :
        RetrieveAgain(c, q, k, t)
  \/ \E c \in Calls : EmbeddingReturns(c)
  \/ \E c \in Calls : SearchReturns(c)
  \/ \E c \in Calls : FetchReturns(c)
  \/ \E key \in {<<cacheKeyOf[q], k>> : q \in ExpandQuestions, k \in TopKs} : TtlExpires(key)
  \/ \E url \in Urls : started = 0 /\ UpsertChunks(url)
  \/ started = 0 /\ BuildBM25Index

SpecExpand == Init /\ [][NextExpand]_vars

questionTokens == [q \in ExpandQuestions |-> tokenize(q)]

\* the keywords appended to question in expanded, or <<"?">> when
\* expanded does not begin with the question followed by a space
appended(question, expanded) ==
  IF expanded = question THEN <<>>
  ELSE IF /\ Len(expanded) > Len(question) + 1
          /\ SubSeq(expanded, 1, Len(question) + 1) = question \o " "
         THEN splitWhitespace(SubSeq(expanded, Len(question) + 2, Len(expanded)))
         ELSE <<"?">>

AllKeywords == UNION {Range(expansionRules[r].keywords) : r \in 1..Len(expansionRules)}

\* C24: the expanded query a call searched the sparse index with is the
\* question unchanged followed by keywords of the rules, each appended at
\* most once and none already present as a token of the question.
C24_ExpansionAddsOnlyNewKeywords ==
  \A c \in Calls :
    LET call == calls[c]
        added == appended(call.question, call.expandedQuery)
    IN (call.sparseCalls > 0 /\ call.question \in ExpandQuestions) =>
         /\ Range(added) \subseteq AllKeywords
         /\ \A i, j \in 1..Len(added) : added[i] = added[j] => i = j
         /\ \A i \in 1..Len(added) :
              toLowerCase(added[i]) \notin Range(questionTokens[call.question])

\* C29: every {id, score} pair the BM25 search of a call returned has a
\* strictly positive score, and its chunk shares a token with the expanded
\* query.
C29_SparseScoresPositive ==
  \A c \in Calls :
    LET call == calls[c] IN
    call.sparseCalls > 0 =>
      \A i \in 1..Len(call.bm25Results) :
        /\ call.bm25Results[i].score > 0
        /\ Range(queryTokensOf[call.expandedQuery])
             \cap Range(corpusTokens[call.bm25Results[i].id]) # {}

(***************************************************************************)
(* Concurrent retrieve calls: MaxCalls requests in flight at once, on a    *)
(* store that pages are added to meanwhile.                                *)
(***************************************************************************)
MaxCalls == 2
ConcurrentCalls == 1..MaxCalls

InitConcurrent ==
  /\ points = {}
  /\ index = emptyIndex
  /\ cache = <<>>
  /\ calls = [c \in ConcurrentCalls |-> idleCall]
  /\ prev = noCall
  /\ started = 0
  /\ returned = <<>>
  /\ hashOf = <<>>
  /\ runs = [r \in Runs |-> idleRun]
  /\ file = noFile

NextConcurrent ==
  \/ \E c \in ConcurrentCalls, q \in {"Safety risk", "xyz123"}, k \in TopKs, t \in Thresholds :
        RetrieveAgain(c, q, k, t)
  \/ \E c \in ConcurrentCalls : EmbeddingReturns(c)
  \/ \E c \in ConcurrentCalls : SearchReturns(c)
  \/ \E c \in ConcurrentCalls : FetchReturns(c)
  \/ \E key \in Keys : TtlExpires(key)
  \/ \E url \in Urls : UpsertChunks(url)
  \/ started = 0 /\ BuildBM25Index

SpecConcurrent == InitConcurrent /\ [][NextConcurrent]_vars

keyOf(call) == <<cacheKeyOf[call.question], call.topK>>

\* C28: under every interleaving of concurrent retrieve calls, each cache
\* entry is the complete list that the last call to return for its key
\* returned, and every call that returned and stored its list stored
\* exactly the list it returned.
C28_EntriesAreReturnedLists ==
  /\ [](\A key \in DOMAIN cache : key \in DOMAIN returned /\ cache[key] = returned[key])
  /\ [][\A c \in ConcurrentCalls :
          (calls[c].pc # "done" /\ calls'[c].pc = "done" /\ calls'[c].outcome = "returned") =>
            /\ cache'[keyOf(calls'[c])] = calls'[c].results
            /\ \A key \in DOMAIN cache \ {keyOf(calls'[c])} :
                 key \in DOMAIN cache' /\ cache'[key] = cache[key]]_vars

\* Two calls for one key overlapped: one has returned and stored a list
\* of several chunks while the other, begun before that, is still
\* waiting for its search.
C28_OverlappingCallsOnOneKey ==
  \E c1, c2 \in ConcurrentCalls :
    /\ c1 # c2
    /\ Fused(calls[c1])
    /\ calls[c2].pc \in {"searching", "fetching"}
    /\ keyOf(calls[c1]) = keyOf(calls[c2])
    /\ keyOf(calls[c1]) \in DOMAIN cache
    /\ Len(cache[keyOf(calls[c1])]) >= 2

\* C27: whenever no ingestion request is in progress, the chunk ids of
\* the in-memory BM25 index are the chunk ids of the vector store.
C27_IndexIdsEqualStoreIds ==
  Quiet => Range(index.documentIds) = points

\* C26: a run of ingestKnowella started by the scheduler that has ended
\* ran the pipeline and reported through its response: it ended after the
\* index rebuild, or with the failure of verifyServices or of the sitemap
\* answered by the catch block.
C26_ScheduledRunRunsPipeline ==
  \A r \in Runs :
    (runs[r].trigger = "scheduled" /\ runs[r].pc = "done" /\ runs[r].error # "restart") =>
      runs[r].error \in {"none", "verifyServices"}

(***************************************************************************)
(* ChatController: what the handlers do with the list retrieve returned,   *)
(* and LLMService.generateRAGResponseStream                                *)
(***************************************************************************)
Handlers == {"chatKnowella", "processSingleQuestion", "processSingleQuestionStream"}

\* the fixed answer of the three handlers; answers are sequences of pieces
noContextMsg ==
  <<"I don't have enough information to answer that question based on Knowella's content. Could you try rephrasing or ask something else about Knowella?">>

\* LLMService.extractCitations: the urls of the chunks, each once, in order
RECURSIVE extractCitations(_)
extractCitations(chunks) ==
  IF chunks = <<>> THEN <<>>
  ELSE LET before == extractCitations(SubSeq(chunks, 1, Len(chunks) - 1))
           url == corpus[chunks[Len(chunks)].id].url
       IN IF url \in Range(before) THEN before ELSE Append(before, url)

\* a handler that hands every list, the empty one too, to the generator
afterRetrieveAlwaysGenerates(handler, call) ==
  IF call.outcome = "threw"
    THEN [idleChat EXCEPT !.pc = "failed", !.handler = handler]
    ELSE [idleChat EXCEPT !.handler = handler, !.generations = 1,
                          !.pc = IF handler = "processSingleQuestionStream"
                                   THEN "posting" ELSE "generating"]

\* The handler resumes after `await retrievalService.retrieve(...)`: a
\* rejection leaves through its catch, an empty list is answered at once,
\* any other list goes to the generator.
afterRetrieve(handler, call) ==
  IF call.outcome = "threw"
    THEN [idleChat EXCEPT !.pc = "failed", !.handler = handler]
  ELSE IF Len(call.results) = 0
    THEN [idleChat EXCEPT !.pc = "answered", !.handler = handler,
                          !.answer = noContextMsg, !.citations = <<>>,
                          !.sent = IF handler = "processSingleQuestionStream"
                                     THEN <<noContextMsg>> ELSE <<>>]
  ELSE [idleChat EXCEPT !.handler = handler, !.generations = 1,
                        !.pc = IF handler = "processSingleQuestionStream"
                                 THEN "posting" ELSE "generating"]

chatVars == <<points, index, cache, prev, started, returned, hashOf, runs, file>>

RetrieveResolves(c, handler) ==
  /\ calls[c].pc = "done"
  /\ calls[c].chat.pc = "none"
  /\ calls' = [calls EXCEPT ![c].chat = afterRetrieve(handler, calls[c])]
  /\ UNCHANGED chatVars

\* generateRAGResponse: axios.post resolves or rejects
GenerateSettles(c, ok) ==
  /\ calls[c].chat.pc = "generating"
  /\ calls' = [calls EXCEPT ![c].chat =
       IF ok THEN [@ EXCEPT !.pc = "answered", !.answer = <<"response">>,
                            !.citations = extractCitations(calls[c].results)]
       ELSE [@ EXCEPT !.pc = "failed"]]
  /\ UNCHANGED chatVars

\* generateRAGResponseStream: axios.post resolves with the stream, and
\* the promise is created with its three listeners; or it rejects.
PostSettles(c, ok) ==
  /\ calls[c].chat.pc = "posting"
  /\ calls' = [calls EXCEPT ![c].chat =
       IF ok THEN [@ EXCEPT !.pc = "streaming", !.promise = "pending", !.stream = "open"]
       ELSE [@ EXCEPT !.pc = "failed", !.promise = "rejected"]]
  /\ UNCHANGED chatVars

\* resolve and reject act on a pending promise only
settled(promise, outcome) == IF promise = "pending" THEN outcome ELSE promise

MaxPieces == 2
\* The lines a data event can carry: a piece of the answer, the closing
\* line {"response":"","done":true}, a closing line that carries a piece,
\* and a line JSON.parse throws on (a line cut by the chunk boundary).
Lines == {"piece", "done", "piece+done", "cut"}

\* the 'data' listener, for a chunk of one line; answer and citations
\* hold the value the promise resolved with
onData(chat, line, retrievedChunks) ==
  LET hasResponse == line \in {"piece", "piece+done"}
      isDone == line \in {"done", "piece+done"}
  IN [chat EXCEPT !.fullAnswer = IF hasResponse THEN Append(@, "piece") ELSE @,
                  !.sent = IF hasResponse THEN Append(@, <<"piece">>) ELSE @,
                  !.promise = IF isDone THEN settled(@, "resolved") ELSE @,
                  !.answer = IF isDone /\ chat.promise = "pending"
                               THEN IF hasResponse THEN Append(chat.fullAnswer, "piece")
                                    ELSE chat.fullAnswer
                               ELSE @,
                  !.citations = IF isDone /\ chat.promise = "pending"
                                  THEN extractCitations(retrievedChunks) ELSE @]

StreamData(c, line) ==
  /\ calls[c].chat.stream = "open"
  /\ Len(calls[c].chat.fullAnswer) < MaxPieces
  /\ calls' = [calls EXCEPT ![c].chat = onData(@, line, calls[c].results)]
  /\ UNCHANGED chatVars

\* the 'end' listener
onEnd(chat) ==
  [chat EXCEPT !.stream = "ended",
               !.promise = IF chat.fullAnswer = <<>> THEN settled(@, "rejected") ELSE @]

StreamEnds(c) ==
  /\ calls[c].chat.stream = "open"
  /\ calls' = [calls EXCEPT ![c].chat = onEnd(@)]
  /\ UNCHANGED chatVars

\* the 'error' listener
StreamErrors(c) ==
  /\ calls[c].chat.stream = "open"
  /\ calls' = [calls EXCEPT ![c].chat =
                 [@ EXCEPT !.stream = "errored", !.promise = settled(@, "rejected")]]
  /\ UNCHANGED chatVars

\* processSingleQuestionStream resumes after
\* `await llmService.generateRAGResponseStream(...)`
StreamAwaitResumes(c) ==
  /\ calls[c].chat.pc = "streaming"
  /\ calls[c].chat.promise \in {"resolved", "rejected"}
  /\ calls' = [calls EXCEPT ![c].chat =
       IF @.promise = "resolved"
         THEN [@ EXCEPT !.pc = "answered"]
         ELSE [@ EXCEPT !.pc = "failed"]]
  /\ UNCHANGED chatVars

ChatQuestions == {"Safety risk", "xyz123"}

AwaitingGenerator(c) == calls[c].chat.pc \in {"generating", "posting", "streaming"}

NextChat ==
  \/ \E c \in Calls, q \in ChatQuestions, k \in TopKs, t \in Thresholds :
        ~AwaitingGenerator(c) /\ Retrieve(c, q, k, t)
  \/ \E c \in Calls : EmbeddingReturns(c)
  \/ \E c \in Calls : EmbeddingFails(c)
  \/ \E c \in Calls : SearchReturns(c)
  \/ \E c \in Calls : FetchReturns(c)
  \/ \E url \in Urls : started = 0 /\ UpsertChunks(url)
  \/ started = 0 /\ BuildBM25Index
  \/ \E c \in Calls, handler \in Handlers : RetrieveResolves(c, handler)
  \/ \E c \in Calls, ok \in BOOLEAN : GenerateSettles(c, ok)
  \/ \E c \in Calls, ok \in BOOLEAN : PostSettles(c, ok)
  \/ \E c \in Calls, line \in Lines : StreamData(c, line)
  \/ \E c \in Calls : StreamEnds(c)
  \/ \E c \in Calls : StreamErrors(c)
  \/ \E c \in Calls : StreamAwaitResumes(c)

SpecChat == Init /\ [][NextChat]_vars

\* C21: a request whose retrieve returned an empty list is answered with
\* the fixed insufficient-information message and no citation, and the
\* answer generator was not called for it.
C21_EmptyListAnsweredWithoutGenerator ==
  \A c \in Calls :
    (/\ calls[c].pc = "done"
     /\ calls[c].outcome \in {"hit", "returned"}
     /\ calls[c].results = <<>>
     /\ calls[c].chat.pc # "none")
    => /\ calls[c].chat.pc = "answered"
       /\ calls[c].chat.answer = noContextMsg
       /\ calls[c].chat.citations = <<>>
       /\ calls[c].chat.generations = 0

\* retrieve ran its searches, found no candidate and returned the empty
\* list, and the streaming handler sent the fixed message as its one chunk.
C21_EmptyListAnswered ==
  \E c \in Calls :
    /\ Fused(calls[c])
    /\ calls[c].denseCalls = 1
    /\ calls[c].results = <<>>
    /\ calls[c].chat.pc = "answered"
    /\ calls[c].chat.handler = "processSingleQuestionStream"
    /\ calls[c].chat.sent = <<noContextMsg>>

\* C30: once the model's response stream has ended or errored, the
\* promise of generateRAGResponseStream is settled.
C30_SettledAfterStreamEnd ==
  \A c \in Calls :
    calls[c].chat.stream \in {"ended", "errored"} =>
      calls[c].chat.promise \in {"resolved", "rejected"}

(***************************************************************************)
(* ChunkerService.chunkText.  A text is the sequence of the lengths of its *)
(* sentences, which single spaces separate; a chunk is the sequence of the *)
(* lengths of the sentences it holds.                                      *)
(***************************************************************************)
\* config.chunking, scaled down: a target of 3 tokens is 12 characters
maxTokens == 3
overlapTokens == 1
minChunkSize == 4

MaxSentences == 4
SentenceLengths == {3, 8, 17}
Texts == UNION {[1..n -> SentenceLengths] : n \in 1..MaxSentences}

RECURSIVE stringLength(_)
\* the length of the string made of each sentence followed by a space
stringLength(chunk) ==
  IF chunk = <<>> THEN 0 ELSE Head(chunk) + 1 + stringLength(Tail(chunk))

\* currentChunk.trim().length
trimmedLength(chunk) == IF chunk = <<>> THEN 0 ELSE stringLength(chunk) - 1

\* Math.floor(length / 4)
estimatedTokens(length) == length \div 4

RECURSIVE overlapFrom(_, _, _, _)
\* the loop of getOverlapText, at index i
overlapFrom(sentences, i, overlap, tokenCount) ==
  IF i < 1 THEN overlap
  ELSE LET sentenceTokens == estimatedTokens(sentences[i])
       IN IF tokenCount + sentenceTokens > overlapTokens THEN overlap
          ELSE overlapFrom(sentences, i - 1, <<sentences[i]>> \o overlap,
                           tokenCount + sentenceTokens)

getOverlapText(sentences, currentIndex) ==
  overlapFrom(sentences, currentIndex - 1, <<>>, 0)

RECURSIVE groupSentences(_, _, _, _, _)
\* the loop of chunkText at sentence i, and the final chunk after it
groupSentences(sentences, i, chunks, currentChunk, currentTokenCount) ==
  IF i > Len(sentences)
    THEN IF trimmedLength(currentChunk) >= minChunkSize
           THEN Append(chunks, currentChunk) ELSE chunks
  ELSE LET sentenceTokens == estimatedTokens(sentences[i])
           closes == currentTokenCount + sentenceTokens > maxTokens
                     /\ stringLength(currentChunk) > 0
           overlap == getOverlapText(sentences, i)
       IN IF closes
            THEN groupSentences(sentences, i + 1, Append(chunks, currentChunk),
                                Append(overlap, sentences[i]),
                                estimatedTokens(stringLength(overlap)) + sentenceTokens)
            ELSE groupSentences(sentences, i + 1, chunks,
                                Append(currentChunk, sentences[i]),
                                currentTokenCount + sentenceTokens)

chunkText(sentences) ==
  IF estimatedTokens(trimmedLength(sentences)) <= maxTokens
    THEN <<sentences>>
    ELSE groupSentences(sentences, 1, <<>>, <<>>, 0)

\* processUrl calls chunkText on the text of the page
ChunkText(r) ==
  /\ runs[r].chunker.pc = "called"
  /\ runs' = [runs EXCEPT ![r].chunker.pc = "returned",
                          ![r].chunker.chunks = chunkText(runs[r].chunker.sentences)]
  /\ UNCHANGED <<points, index, cache, calls, prev, started, returned, hashOf, file>>

InitChunker ==
  /\ points = {}
  /\ index = emptyIndex
  /\ cache = <<>>
  /\ calls = [c \in Calls |-> idleCall]
  /\ prev = noCall
  /\ started = 0
  /\ returned = <<>>
  /\ hashOf = <<>>
  /\ \E text \in Texts :
       runs = [r \in Runs |->
                 IF r = 1
                   THEN [idleRun EXCEPT !.chunker = [pc |-> "called", sentences |-> text,
                                                     chunks |-> <<>>]]
                   ELSE idleRun]
  /\ file = noFile

NextChunker == \E r \in Runs : ChunkText(r)

SpecChunker == InitChunker /\ [][NextChunker]_vars

\* C25: every chunk that chunkText returned for a text larger than the
\* target has an estimated token count of at most maxTokens.
C25_ChunksWithinMaxTokens ==
  \A r \in Runs :
    LET chunker == runs[r].chunker IN
    (/\ chunker.pc = "returned"
     /\ estimatedTokens(trimmedLength(chunker.sentences)) > maxTokens)
    => \A i \in 1..Len(chunker.chunks) :
         estimatedTokens(trimmedLength(chunker.chunks[i])) <= maxTokens

====
